---- MODULE Spec2Model ----
(***************************************************************************)
(* HT-Race: the per-frame vehicle physics (updatePhysics), the key latch   *)
(* (onKeyDown / onKeyUp) and the frame loop (animate) of the two variants  *)
(* of the game: the open field (src/unnamed/part_000 and src/main.js lines *)
(* 1-211) and the circular circuit (src/main.js lines 213-440).            *)
(*                                                                         *)
(* The JavaScript numbers are modelled in fixed point:                     *)
(*   lengths in centimetres, velocities in cm/s, deltaTime in             *)
(*   milliseconds, angles in microradians, the components of unit vectors  *)
(*   and sines/cosines in 1/10000.                                         *)
(* Every product is rounded toward zero (Div), and the length a vector is  *)
(* divided by is rounded up (Sqrt), so that scaling, drag and              *)
(* normalisation never make a magnitude larger than the real number it     *)
(* stands for.  Comparisons of a length with a constant are made exactly,  *)
(* on the squares.  Sines and cosines are exact at the multiples of pi/2   *)
(* and within 2/10000 elsewhere.                                           *)
(***************************************************************************)
EXTENDS Integers, Sequences, FiniteSets, TLC

---------------------------------------------------------------------------
(* Units of the fixed-point representation *)

Cm == 10^2
Ms == 10^3
Unit == 10^4

(* Bounds of the model *)

\* frames the frame loop runs from the constructed state
MaxFrames == 2
\* frames the frame loop runs from a placed state
MaxPlacedFrames == 1

\* the values clock.getDelta() is drawn from, in milliseconds
DeltaTimes == {0, 100, 1000, 4000}

---------------------------------------------------------------------------
(* Fixed-point arithmetic *)

\* a / b rounded toward zero, b > 0
Div(a, b) == IF a >= 0 THEN a \div b ELSE -((-a) \div b)

RECURSIVE SqrtSearch(_, _, _)
\* the largest r in lo..hi-1 with r*r <= n
SqrtSearch(n, lo, hi) ==
    IF hi - lo <= 1 THEN lo
    ELSE LET mid == (lo + hi) \div 2
         IN  IF mid * mid <= n THEN SqrtSearch(n, mid, hi)
                               ELSE SqrtSearch(n, lo, mid)

\* Math.sqrt, rounded up
Sqrt(n) ==
    LET r == SqrtSearch(n, 0, 46341)
    IN  IF r * r = n THEN r ELSE r + 1

Pi == 3141592
HalfPi == 1570796
QuarterPi == 785398
TwoPi == 6283185

\* sin of x (in 1/10000 rad, 0 <= x <= pi/4), in 1/10000
SinSeries(x) ==
    LET x2 == Div(x * x, Unit)
        t3 == Div(Div(x * x2, Unit), 6)
        t5 == Div(Div(t3 * x2, Unit), 20)
        t7 == Div(Div(t5 * x2, Unit), 42)
    IN  x - t3 + t5 - t7

\* cos of x (in 1/10000 rad, 0 <= x <= pi/4), in 1/10000
CosSeries(x) ==
    LET x2 == Div(x * x, Unit)
        t2 == Div(x2, 2)
        t4 == Div(Div(t2 * x2, Unit), 12)
        t6 == Div(Div(t4 * x2, Unit), 30)
    IN  Unit - t2 + t4 - t6

\* sin of a (in microradians, 0 <= a <= pi/2), in 1/10000
SinQuadrant(a) ==
    IF a <= QuarterPi THEN SinSeries(Div(a, 100))
    ELSE CosSeries(Div(IF HalfPi - a > 0 THEN HalfPi - a ELSE 0, 100))

\* Math.sin of an angle in microradians, in 1/10000
Sin(theta) ==
    LET m == theta % TwoPi
        h == IF m < Pi THEN m ELSE m - Pi
        q == IF h <= HalfPi THEN h ELSE IF Pi - h > 0 THEN Pi - h ELSE 0
        s == SinQuadrant(q)
    IN  IF m < Pi THEN s ELSE -s

\* Math.cos of an angle in microradians, in 1/10000
Cos(theta) == Sin(theta + HalfPi)

---------------------------------------------------------------------------
(* THREE.Vector3 / THREE.Vector2, as the program uses them *)

Vec3(x, y, z) == <<x, y, z>>
Zero3 == Vec3(0, 0, 0)

\* a.add(b)
Add(a, b) == Vec3(a[1] + b[1], a[2] + b[2], a[3] + b[3])

\* v.multiplyScalar(n / d)
MultiplyScalar(v, n, d) == Vec3(Div(v[1] * n, d), Div(v[2] * n, d), Div(v[3] * n, d))

\* v.length() squared
LengthSq(v) == v[1] * v[1] + v[2] * v[2] + v[3] * v[3]

\* v.length(), as normalize() divides by it
Length(v) == Sqrt(LengthSq(v))

Abs(n) == IF n < 0 THEN -n ELSE n

\* the largest magnitude among the components of v
MaxComponent(v) ==
    LET a == Abs(v[1])
        b == Abs(v[2])
        c == Abs(v[3])
    IN  IF a >= b /\ a >= c THEN a ELSE IF b >= c THEN b ELSE c

\* v.normalize(): divideScalar(length() || 1); the result is in 1/10000.
\* A double rounds relative to its magnitude: v is first brought to a largest
\* component of 2 * Unit, so that the rounding of its length is relative too.
Normalize(v) ==
    LET m == MaxComponent(v)
        w == MultiplyScalar(v, 2 * Unit, IF m = 0 THEN 1 ELSE m)
        len == IF Length(w) = 0 THEN 1 ELSE Length(w)
    IN  MultiplyScalar(w, Unit, len)

\* v.setLength(l): normalize().multiplyScalar(l)
SetLength(v, l) == MultiplyScalar(Normalize(v), l, Unit)

\* v.applyAxisAngle(new THREE.Vector3(0, 1, 0), angle): rotation about Y
ApplyAxisAngleY(v, angle) ==
    LET c == Cos(angle)
        s == Sin(angle)
    IN  Vec3(Div(v[1] * c + v[3] * s, Unit), v[2], Div(v[3] * c - v[1] * s, Unit))

\* Vector2 (x, y) held as Vec3(x, 0, y)
Vec2(x, y) == Vec3(x, 0, y)

---------------------------------------------------------------------------
(* State and constants of the program *)

VARIABLES
    variant,          \* which program runs: "open" (field) or "circuit" (track)
    keys,             \* const keys = {forward, backward, left, right}
    position,         \* player.position
    rotationY,        \* player.rotation.y
    velocity,         \* let velocity
    angularVelocity,  \* let angularVelocity
    cameraPosition,   \* camera.position
    deltaTime,        \* the deltaTime of the frame being computed
    pc,               \* where the frame being computed stands; "idle" between frames
    frames,           \* frames run so far
    limit,            \* frames the loop may run (the bound of the model)
    prev,             \* history: the body when the current frame started
    held,             \* history: the controls held when the current frame started
    written,          \* history: per control, what the last event for one of its
                      \* keys wrote (FALSE if none)
    fired,            \* history: the boundary rules that fired in the current frame
    done,             \* history: the sections of updatePhysics run in the current frame
    forwardRun        \* history: the body started at rest and every frame so far
                      \* ran with only forward held and fired no boundary rule

vars == <<variant, keys, position, rotationY, velocity, angularVelocity,
          cameraPosition, deltaTime, pc, frames, limit, prev, held, written, fired,
          done, forwardRun>>

MASS == 10
\* ACCELERATION, in m/s^2
ACCELERATION == IF variant = "circuit" THEN 40 ELSE 20
\* MAX_SPEED, in m/s
MAX_SPEED == IF variant = "circuit" THEN 35 ELSE 15
\* DRAG, in 1/1000
DRAG == IF variant = "circuit" THEN 980 ELSE 985
\* ANGULAR_DRAG, in 1/100
ANGULAR_DRAG == 95
\* TURN_RATE, in microradians
TURN_RATE == 50000
\* TRACK_RADIUS, TRACK_WIDTH, in m
TRACK_RADIUS == 60
TRACK_WIDTH == 10
\* const boundary, in m
boundary == 48

---------------------------------------------------------------------------
(* The key latch *)

KeyIds == {"w", "W", "ArrowUp", "s", "S", "ArrowDown",
           "a", "A", "ArrowLeft", "d", "D", "ArrowRight", "Shift"}

NoKeys == [forward |-> FALSE, backward |-> FALSE, left |-> FALSE, right |-> FALSE]

\* the control a key identity is bound to (for the history variable written)
ControlOf(key) ==
    CASE key \in {"w", "W", "ArrowUp"}    -> "forward"
      [] key \in {"s", "S", "ArrowDown"}  -> "backward"
      [] key \in {"a", "A", "ArrowLeft"}  -> "left"
      [] key \in {"d", "D", "ArrowRight"} -> "right"
      [] OTHER -> "none"

\* written after an event of `key` that writes `pressed`
Write(key, pressed) ==
    IF ControlOf(key) \in DOMAIN written
    THEN [written EXCEPT ![ControlOf(key)] = pressed]
    ELSE written

\* the switch of onKeyDown without its upper-case labels
KeyDownLowerCase(ks, key) ==
    CASE key \in {"w", "ArrowUp"}    -> [ks EXCEPT !.forward = TRUE]
      [] key \in {"s", "ArrowDown"}  -> [ks EXCEPT !.backward = TRUE]
      [] key \in {"a", "ArrowLeft"}  -> [ks EXCEPT !.left = TRUE]
      [] key \in {"d", "ArrowRight"} -> [ks EXCEPT !.right = TRUE]
      [] OTHER -> ks

\* the switch of onKeyDown
KeyDown(ks, key) ==
    CASE key \in {"w", "W", "ArrowUp"}    -> [ks EXCEPT !.forward = TRUE]
      [] key \in {"s", "S", "ArrowDown"}  -> [ks EXCEPT !.backward = TRUE]
      [] key \in {"a", "A", "ArrowLeft"}  -> [ks EXCEPT !.left = TRUE]
      [] key \in {"d", "D", "ArrowRight"} -> [ks EXCEPT !.right = TRUE]
      [] OTHER -> ks

\* the switch of onKeyUp
KeyUp(ks, key) ==
    CASE key \in {"w", "W", "ArrowUp"}    -> [ks EXCEPT !.forward = FALSE]
      [] key \in {"s", "S", "ArrowDown"}  -> [ks EXCEPT !.backward = FALSE]
      [] key \in {"a", "A", "ArrowLeft"}  -> [ks EXCEPT !.left = FALSE]
      [] key \in {"d", "D", "ArrowRight"} -> [ks EXCEPT !.right = FALSE]
      [] OTHER -> ks

body == <<position, rotationY, velocity, angularVelocity, cameraPosition>>
frame == <<deltaTime, pc, frames, limit, prev, held, fired, done, forwardRun>>

\* the bounded run still has a frame to come
Running == frames < limit

\* a handler dispatched while updatePhysics is running
HandlerMayPreempt == TRUE

\* document.addEventListener / requestAnimationFrame: the callbacks are tasks
\* of one event loop and updatePhysics never yields, so a handler is
\* dispatched only when no frame is being computed
HandlerMayRun == pc = "idle"

\* a keydown event: handlers run to completion between frames
OnKeyDown(key) ==
    /\ HandlerMayRun
    /\ Running
    /\ keys' = KeyDown(keys, key)
    /\ written' = Write(key, TRUE)
    /\ UNCHANGED <<variant, body, frame>>

\* a keyup event
OnKeyUp(key) ==
    /\ HandlerMayRun
    /\ Running
    /\ keys' = KeyUp(keys, key)
    /\ written' = Write(key, FALSE)
    /\ UNCHANGED <<variant, body, frame>>

---------------------------------------------------------------------------
(* updatePhysics, section by section *)

Snapshot == [position |-> position, rotationY |-> rotationY,
             velocity |-> velocity, angularVelocity |-> angularVelocity]

OnlyForward(ks) == ks.forward /\ ~ks.backward /\ ~ks.left /\ ~ks.right

\* animate: sample the clock and enter updatePhysics
Animate ==
    /\ pc = "idle"
    /\ Running
    /\ \E dt \in DeltaTimes : deltaTime' = dt
    /\ frames' = frames + 1
    /\ prev' = Snapshot
    /\ held' = keys
    /\ fired' = {}
    /\ done' = <<>>
    /\ forwardRun' = (forwardRun /\ OnlyForward(keys))
    /\ pc' = "steering"
    /\ UNCHANGED <<variant, keys, written, body, limit>>

\* the steering with an else between its two if statements
SteerEitherOr(av, ks, dt) ==
    LET turn == Div(TURN_RATE * dt, Ms)
    IN  IF ks.left THEN av + turn ELSE IF ks.right THEN av - turn ELSE av

\* 1. Rotation (Steering): the two if statements
Steer(av, ks, dt) ==
    LET turn == Div(TURN_RATE * dt, Ms)
        a1 == IF ks.left THEN av + turn ELSE av
    IN  IF ks.right THEN a1 - turn ELSE a1

Steering ==
    /\ pc = "steering"
    /\ done' = Append(done, pc)
    /\ angularVelocity' = Steer(angularVelocity, keys, deltaTime)
    /\ pc' = "angularDrag"
    /\ UNCHANGED <<variant, keys, written, position, rotationY, velocity, cameraPosition,
                   deltaTime, frames, limit, prev, held, fired, forwardRun>>

\* angularVelocity *= ANGULAR_DRAG
DampAngular(av) == Div(av * ANGULAR_DRAG, 100)

\* angularVelocity *= ANGULAR_DRAG; player.rotation.y += angularVelocity
AngularDrag ==
    /\ pc = "angularDrag"
    /\ done' = Append(done, pc)
    /\ angularVelocity' = DampAngular(angularVelocity)
    /\ rotationY' = rotationY + angularVelocity'
    /\ pc' = "velocity"
    /\ UNCHANGED <<variant, keys, written, position, velocity, cameraPosition,
                   deltaTime, frames, limit, prev, held, fired, forwardRun>>

\* 2. Acceleration (Force): force in cm/s^2 times MASS
Force(rotY, ks) ==
    LET forwardVector == ApplyAxisAngleY(Vec3(0, 0, -Unit), rotY)
        f1 == IF ks.forward
              THEN MultiplyScalar(forwardVector, ACCELERATION * Cm, Unit)
              ELSE Zero3
    IN  IF ks.backward
        THEN Add(f1, MultiplyScalar(forwardVector, -(ACCELERATION * Cm) \div 2, Unit))
        ELSE f1

\* ClampSpeed without the clamp
ClampSpeedOff(v) == v

\* velocity.length() > MAX_SPEED ? velocity.setLength(MAX_SPEED)
ClampSpeed(v) ==
    IF LengthSq(v) > (MAX_SPEED * Cm) * (MAX_SPEED * Cm)
    THEN SetLength(v, MAX_SPEED * Cm)
    ELSE v

\* the velocity update with the acceleration assigned instead of added
DraggedVelocityNoCarry(v, rotY, ks, dt) ==
    LET accelerationVector == MultiplyScalar(Force(rotY, ks), 1, MASS)
    IN  MultiplyScalar(MultiplyScalar(accelerationVector, dt, Ms), DRAG, 1000)

\* 3. Update Velocity: acceleration and drag
DraggedVelocity(v, rotY, ks, dt) ==
    LET accelerationVector == MultiplyScalar(Force(rotY, ks), 1, MASS)
        v1 == Add(v, MultiplyScalar(accelerationVector, dt, Ms))
    IN  MultiplyScalar(v1, DRAG, 1000)

\* 3. Update Velocity: acceleration, drag, clamp
NextVelocity(v, rotY, ks, dt) == ClampSpeed(DraggedVelocity(v, rotY, ks, dt))

UpdateVelocity ==
    /\ pc = "velocity"
    /\ done' = Append(done, pc)
    /\ velocity' = NextVelocity(velocity, rotationY, keys, deltaTime)
    /\ pc' = "position"
    /\ UNCHANGED <<variant, keys, written, position, rotationY, angularVelocity,
                   cameraPosition, deltaTime, frames, limit, prev, held, fired,
                   forwardRun>>

\* 4. Update Position: player.position.add(velocity.clone().multiplyScalar(deltaTime))
Translate(p, v, dt) == Add(p, MultiplyScalar(v, dt, Ms))

\* the circuit placing its camera right after 4. Update Position
AfterPositionToCamera == "camera"

\* the section that follows 4. Update Position
AfterPosition == IF variant = "circuit" THEN "walls" ELSE "camera"

UpdatePosition ==
    /\ pc = "position"
    /\ done' = Append(done, pc)
    /\ position' = Translate(position, velocity, deltaTime)
    /\ pc' = AfterPosition
    /\ UNCHANGED <<variant, keys, written, rotationY, velocity, angularVelocity,
                   cameraPosition, deltaTime, frames, limit, prev, held, fired,
                   forwardRun>>

\* the crash decay with a factor of 0.1
CrashTenth(v) == MultiplyScalar(v, 1, 10)

\* velocity.multiplyScalar(0.01)
Crash(v) == MultiplyScalar(v, 1, 100)

\* the inner wall test with <= for <
InnerWallHitInclusive(distanceSq) == distanceSq <= (TRACK_RADIUS * Cm) * (TRACK_RADIUS * Cm)

\* distanceToCenter < TRACK_RADIUS, on the squares
InnerWallHit(distanceSq) == distanceSq < (TRACK_RADIUS * Cm) * (TRACK_RADIUS * Cm)

\* const maxRadius = TRACK_RADIUS + TRACK_WIDTH
maxRadius == (TRACK_RADIUS + TRACK_WIDTH) * Cm

\* the outer wall test against TRACK_WIDTH for maxRadius
OuterWallHitPastWidth(distanceSq) == distanceSq > (TRACK_WIDTH * Cm) * (TRACK_WIDTH * Cm)

\* distanceToCenter > maxRadius, on the squares
OuterWallHit(distanceSq) == distanceSq > maxRadius * maxRadius

\* the inner snap radius without its 0.1 margin
InnerSnapOnWall == TRACK_RADIUS * Cm

\* TRACK_RADIUS + 0.1
InnerSnap == TRACK_RADIUS * Cm + Cm \div 10

\* maxRadius - 0.1
OuterSnap == maxRadius - Cm \div 10

\* 5. Track Boundary Check (circuit): position, velocity and the rules fired
TrackBoundary(p, v) ==
    LET position2D == Vec2(p[1], p[3])
        distanceSq == LengthSq(position2D)
        inner == InnerWallHit(distanceSq)
        innerSnap == InnerSnap
        \* position2D is normalized in place by each call of normalize()
        n1 == Normalize(position2D)
        n2 == Normalize(n1)
        p1 == IF inner
              THEN Vec3(Div(n1[1] * innerSnap, Unit), p[2], Div(n2[3] * innerSnap, Unit))
              ELSE p
        v1 == IF inner THEN Crash(v) ELSE v
        outer == OuterWallHit(distanceSq)
        outerSnap == OuterSnap
        m1 == Normalize(IF inner THEN n2 ELSE position2D)
        m2 == Normalize(m1)
        p2 == IF outer
              THEN Vec3(Div(m1[1] * outerSnap, Unit), p1[2], Div(m2[3] * outerSnap, Unit))
              ELSE p1
        v2 == IF outer THEN Crash(v1) ELSE v1
    IN  [position |-> p2, velocity |-> v2,
         fired |-> (IF inner THEN {"inner"} ELSE {}) \cup (IF outer THEN {"outer"} ELSE {})]

TrackBoundaryCheck ==
    /\ pc = "walls"
    /\ done' = Append(done, pc)
    /\ LET r == TrackBoundary(position, velocity)
       IN  /\ position' = r.position
           /\ velocity' = r.velocity
           /\ fired' = r.fired
           /\ forwardRun' = (forwardRun /\ r.fired = {})
    /\ pc' = "camera"
    /\ UNCHANGED <<variant, keys, written, rotationY, angularVelocity, cameraPosition,
                   deltaTime, frames, limit, prev, held>>

\* Math.abs(player.position.x) > boundary || Math.abs(player.position.z) > boundary
OutOfField(p) == Abs(p[1]) > boundary * Cm \/ Abs(p[3]) > boundary * Cm

\* Simple boundary check (open field): the velocity it leaves
SimpleBoundary(p, v) == IF OutOfField(p) THEN Crash(v) ELSE v

SimpleBoundaryCheck ==
    /\ pc = "check"
    /\ done' = Append(done, pc)
    /\ velocity' = SimpleBoundary(position, velocity)
    /\ fired' = IF OutOfField(position) THEN {"edge"} ELSE {}
    /\ forwardRun' = (forwardRun /\ ~OutOfField(position))
    /\ pc' = "idle"
    /\ UNCHANGED <<variant, keys, written, position, rotationY, angularVelocity,
                   cameraPosition, deltaTime, frames, limit, prev, held>>

\* Camera Follow with the offset left unrotated
CameraPlaceUnrotated(p, rotY) == Add(p, Vec3(0, 5 * Cm, 10 * Cm))

\* Camera Follow: camera.position.copy(player.position).add(cameraOffset)
CameraPlace(p, rotY) ==
    LET cameraOffset == ApplyAxisAngleY(Vec3(0, 5 * Cm, 10 * Cm), rotY)
    IN  Add(p, cameraOffset)

\* the section that follows Camera Follow
AfterCamera == IF variant = "circuit" THEN "idle" ELSE "check"

CameraFollow ==
    /\ pc = "camera"
    /\ done' = Append(done, pc)
    /\ cameraPosition' = CameraPlace(position, rotationY)
    /\ pc' = AfterCamera
    /\ UNCHANGED <<variant, keys, written, position, rotationY, velocity, angularVelocity,
                   deltaTime, frames, limit, prev, held, fired, forwardRun>>

---------------------------------------------------------------------------
(* The program from its constructed state *)

\* player.position after init()
StartPosition(v) ==
    IF v = "circuit"
    THEN Vec3(TRACK_RADIUS * Cm + (TRACK_WIDTH * Cm) \div 2, Cm \div 2, 0)
    ELSE Vec3(0, Cm \div 2, 0)

\* camera.position after init()
StartCameras(v) ==
    IF v = "circuit" THEN {Zero3} ELSE {Zero3, Vec3(0, 5 * Cm, 10 * Cm)}

Init ==
    /\ variant \in {"open", "circuit"}
    /\ keys = NoKeys
    /\ position = StartPosition(variant)
    /\ rotationY = 0
    /\ velocity = Zero3
    /\ angularVelocity = 0
    /\ cameraPosition \in StartCameras(variant)
    /\ deltaTime = 0
    /\ pc = "idle"
    /\ frames = 0
    /\ limit = MaxFrames
    /\ prev = Snapshot
    /\ held = NoKeys
    /\ written = NoKeys
    /\ fired = {}
    /\ done = <<>>
    /\ forwardRun = TRUE

Next ==
    \/ \E key \in KeyIds : OnKeyDown(key)
    \/ \E key \in KeyIds : OnKeyUp(key)
    \/ Animate
    \/ Steering
    \/ AngularDrag
    \/ UpdateVelocity
    \/ UpdatePosition
    \/ TrackBoundaryCheck
    \/ CameraFollow
    \/ SimpleBoundaryCheck

Spec == Init /\ [][Next]_vars

---------------------------------------------------------------------------
(* The program from a placed state: a body put at a position with a       *)
(* velocity, a heading and an angular velocity that play can leave it in   *)

\* the horizontal positions a body is placed at, in cm
PlacedPositions(v) ==
    IF v = "circuit"
    THEN {<<6500, 0>>, <<5500, 0>>, <<-3300, -4400>>, <<0, 0>>, <<0, 7000>>, <<6000, 0>>}
    ELSE {<<0, 0>>, <<4900, 0>>, <<-4800, 4800>>, <<0, -4900>>, <<2000, 4801>>}

\* the velocities a body is placed with, in cm/s: at rest, at MAX_SPEED
\* along +x and along -x, and an oblique one
PlacedVelocities(v) ==
    LET max == IF v = "circuit" THEN 35 * Cm ELSE 15 * Cm
    IN  {Zero3, Vec3(max, 0, 0), Vec3(-max, 0, 0), Vec3(300, 0, -400)}

\* the headings and angular velocities a body is placed with, in microradians:
\* straight ahead, after one full turn, and turning through a quarter turn
PlacedTurns == {<<0, 0>>, <<TwoPi, 0>>, <<-HalfPi, 100000>>}

InitPlaced ==
    /\ variant \in {"open", "circuit"}
    /\ keys = NoKeys
    /\ \E xz \in PlacedPositions(variant) : position = Vec3(xz[1], Cm \div 2, xz[2])
    /\ \E t \in PlacedTurns : rotationY = t[1] /\ angularVelocity = t[2]
    /\ velocity \in PlacedVelocities(variant)
    /\ cameraPosition = Zero3
    /\ deltaTime = 0
    /\ pc = "idle"
    /\ frames = 0
    /\ limit = MaxPlacedFrames
    /\ prev = Snapshot
    /\ held = NoKeys
    /\ written = NoKeys
    /\ fired = {}
    /\ done = <<>>
    /\ forwardRun = (velocity = Zero3 /\ angularVelocity = 0)

SpecPlaced == InitPlaced /\ [][Next]_vars

---------------------------------------------------------------------------
(* Properties *)

\* updatePhysics has returned at least once and no frame is being computed
AfterStep == pc = "idle" /\ frames > 0

\* the square of the horizontal distance from the track centre
DistanceSq(p) == p[1] * p[1] + p[3] * p[3]

\* MAX_SPEED in cm/s
MaxSpeed == MAX_SPEED * Cm

\* C1: after every updatePhysics step the magnitude of the velocity is at
\* most MAX_SPEED (15 m/s in the open field, 35 m/s on the circuit).
SpeedWithinMax == AfterStep => LengthSq(velocity) <= MaxSpeed * MaxSpeed

\* C1 witness: a step whose dragged velocity exceeded MAX_SPEED, was clamped
\* and met no boundary rule
SpeedWasClamped ==
    /\ AfterStep
    /\ fired = {}
    /\ LengthSq(DraggedVelocity(prev.velocity, rotationY, held, deltaTime))
           > MaxSpeed * MaxSpeed
    /\ LengthSq(velocity) > (MaxSpeed - 3) * (MaxSpeed - 3)

\* C2 (as claimed): on the circuit, at the end of every updatePhysics step
\* the horizontal distance from the track centre lies in
\* [TRACK_RADIUS, TRACK_RADIUS + TRACK_WIDTH], whatever the starting position,
\* the track centre included.
InCorridorAfterStep ==
    (AfterStep /\ variant = "circuit")
        => /\ DistanceSq(position) >= (TRACK_RADIUS * Cm) * (TRACK_RADIUS * Cm)
           /\ DistanceSq(position) <= maxRadius * maxRadius

\* the latch after an event of `key` that writes `pressed` is `after`: its
\* control holds `pressed`, every other control is as it was, and the same
\* event again leaves `after` as it is
LatchWrites(key, pressed, after) ==
    /\ \A c \in DOMAIN keys :
          after[c] = IF c = ControlOf(key) THEN pressed ELSE keys[c]
    /\ after = IF pressed THEN KeyDown(after, key) ELSE KeyUp(after, key)

\* C3: a key-down of W/w/ArrowUp, S/s/ArrowDown, A/a/ArrowLeft, D/d/ArrowRight
\* sets forward, backward, left, right; the key-up clears it; the other three
\* controls are unchanged; any other key changes nothing; repeating the event
\* changes nothing more; so each control holds what the last event for one of
\* its keys wrote (false if none).
KeyLatch ==
    /\ keys = written
    /\ \A key \in KeyIds :
          /\ LatchWrites(key, TRUE, KeyDown(keys, key))
          /\ LatchWrites(key, FALSE, KeyUp(keys, key))

\* C3 witness: after a frame run with backward and right held, key events
\* have cleared them and set left and forward
LatchHoldsLeftForward ==
    /\ pc = "idle"
    /\ held.backward /\ held.right
    /\ keys.left /\ keys.forward /\ ~keys.right /\ ~keys.backward

\* C4: at the end of every frame the camera position is the body's final
\* position plus the offset (0, 5, 10) rotated about the vertical axis by the
\* body's final heading; at a heading that is a multiple of 2 pi the offset
\* is (0, 5, 10) itself.
CameraAtOffset ==
    AfterStep =>
        /\ cameraPosition[1] = position[1] + Div(10 * Cm * Sin(rotationY), Unit)
        /\ cameraPosition[2] = position[2] + 5 * Cm
        /\ cameraPosition[3] = position[3] + Div(10 * Cm * Cos(rotationY), Unit)
        /\ rotationY % TwoPi = 0
              => cameraPosition = Add(position, Vec3(0, 5 * Cm, 10 * Cm))

\* C4 witness: a frame of the circuit that ended with the body snapped off the
\* inner wall, at a heading of one full turn
CameraAfterSnapAtFullTurn ==
    /\ AfterStep
    /\ variant = "circuit"
    /\ fired = {"inner"}
    /\ rotationY = TwoPi
    /\ position # prev.position

\* the body was placed at horizontal radius TRACK_RADIUS - 5 with a speed of
\* at most MAX_SPEED when the current frame started
PlacedInsideInnerWall ==
    /\ variant = "circuit"
    /\ DistanceSq(prev.position) = ((TRACK_RADIUS - 5) * Cm) * ((TRACK_RADIUS - 5) * Cm)
    /\ LengthSq(prev.velocity) <= MaxSpeed * MaxSpeed

\* the horizontal radius of p is TRACK_RADIUS + 0.1, within the rounding of
\* the normalisation (3 cm)
AtInnerSnap(p) ==
    LET snap == TRACK_RADIUS * Cm + Cm \div 10
    IN  /\ DistanceSq(p) <= snap * snap
        /\ DistanceSq(p) >= (snap - 3) * (snap - 3)

\* |v| <= 1% of |w|
WithinOnePercent(v, w) == LengthSq(v) <= LengthSq(w) \div 10000

\* C5 (as claimed): on the circuit, a body placed at radius 55 with any
\* velocity of at most MAX_SPEED, any controls and any dt is, after one step,
\* at radius 60.1 with at most 1% of the speed it had before the step.
InnerPlacementSnapsAndStops ==
    (AfterStep /\ PlacedInsideInnerWall)
        => AtInnerSnap(position) /\ WithinOnePercent(velocity, prev.velocity)

\* C5 (amended): on the circuit, for a body placed at radius 55, when the
\* translation of the step leaves it inside the inner radius and off the exact
\* centre, the boundary check puts it at radius 60.1 and leaves at most 1% of
\* the speed the velocity update of that step produced.
InnerHitSnapsAndDecaysStep ==
    (/\ pc = "walls"
     /\ PlacedInsideInnerWall
     /\ InnerWallHit(DistanceSq(position))
     /\ DistanceSq(position) > 0)
        => /\ AtInnerSnap(position')
           /\ WithinOnePercent(velocity', velocity)
           /\ LengthSq(velocity') <= (MaxSpeed \div 100) * (MaxSpeed \div 100)

\* C5 (amended), of every step of the boundary check: an inner-wall hit of a
\* body placed at radius 55 ends at radius 60.1 with at most 1% of the speed
\* the velocity update produced.
InnerHitSnapsAndDecays == [][InnerHitSnapsAndDecaysStep]_vars

\* C5 witness: a frame that started at radius 55, was carried along inside
\* the inner wall and ended snapped, still moving
SnappedFromInside ==
    /\ AfterStep
    /\ PlacedInsideInnerWall
    /\ fired = {"inner"}
    /\ deltaTime > 0
    /\ velocity # Zero3
    /\ AtInnerSnap(position)

\* the body was placed at x = boundary + 1 when the current frame started
PlacedPastEdge == variant = "open" /\ prev.position[1] = (boundary + 1) * Cm

\* C6 (as claimed): in the open field, a body placed at x = 49 with any
\* velocity, any controls and any dt has, after one step, at most 1% of the
\* speed it had before the step, at the position the translation produced.
EdgePlacementStops ==
    (AfterStep /\ PlacedPastEdge)
        => /\ WithinOnePercent(velocity, prev.velocity)
           /\ position = Translate(prev.position,
                  NextVelocity(prev.velocity, rotationY, held, deltaTime), deltaTime)

\* C6 (amended): in the open field, for a body placed at x = 49, the boundary
\* check never moves the body, and when the translation of the step leaves the
\* body outside the field it leaves at most 1% of the speed the velocity
\* update of that step produced; a body the translation carries back inside
\* keeps its speed.
EdgeCheckDecaysOnlyStep ==
    (pc = "check" /\ PlacedPastEdge)
        => /\ position' = position
           /\ OutOfField(position) =>
                 /\ WithinOnePercent(velocity', velocity)
                 /\ LengthSq(velocity') <= (MaxSpeed \div 100) * (MaxSpeed \div 100)
           /\ ~OutOfField(position) => velocity' = velocity

\* C6 (amended), of every step of the boundary check: for a body placed at
\* x = 49 the check moves nothing and, outside the field, leaves at most 1% of
\* the speed the velocity update produced.
EdgeCheckDecaysOnly == [][EdgeCheckDecaysOnlyStep]_vars

\* C6 witness: a frame that started at x = 49, stayed outside the field and
\* ended decayed, still moving, where the translation left it
DecayedPastEdge ==
    /\ AfterStep
    /\ PlacedPastEdge
    /\ fired = {"edge"}
    /\ deltaTime > 0
    /\ velocity # Zero3
    /\ position # prev.position

\* the position triggers no boundary rule
OffBoundary(p) ==
    IF variant = "circuit"
    THEN /\ DistanceSq(p) >= (TRACK_RADIUS * Cm) * (TRACK_RADIUS * Cm)
         /\ DistanceSq(p) <= maxRadius * maxRadius
    ELSE Abs(p[1]) <= boundary * Cm /\ Abs(p[3]) <= boundary * Cm

\* C7: with the four controls released, a body at rest (velocity and angular
\* velocity zero) at a position that triggers no boundary rule is left by an
\* updatePhysics step, whatever dt, with the position, heading, velocity and
\* angular velocity it had; so it is again at rest there for the next step.
RestIsFixed ==
    (/\ AfterStep
     /\ held = NoKeys
     /\ prev.velocity = Zero3
     /\ prev.angularVelocity = 0
     /\ OffBoundary(prev.position))
        => Snapshot = prev

\* C7 witness: a resting body exactly on the inner radius of the circuit has
\* gone through a frame of positive dt
RestedOnInnerRadius ==
    /\ AfterStep
    /\ held = NoKeys
    /\ deltaTime > 0
    /\ variant = "circuit"
    /\ prev.velocity = Zero3
    /\ prev.angularVelocity = 0
    /\ DistanceSq(prev.position) = (TRACK_RADIUS * Cm) * (TRACK_RADIUS * Cm)

\* the speed gained in one frame of full throttle, ACCELERATION / MASS * dt
ThrottleGain == Div(Div(ACCELERATION * Cm, MASS) * deltaTime, Ms)

\* the speed s is below the drag equilibrium of the current frame, the speed
\* ThrottleGain * DRAG / (1 - DRAG) at which drag takes what the throttle gives
BelowEquilibrium(s) == s * (1000 - DRAG) < ThrottleGain * DRAG

BothSteerCancel ==
    /\ (pc = "angularDrag" /\ held.left /\ held.right)
          => angularVelocity = prev.angularVelocity
    /\ (AfterStep /\ (held.left <=> held.right))
          => angularVelocity = Div(prev.angularVelocity * ANGULAR_DRAG, 100)

\* C9 witness: a turning body has gone through a frame of positive dt with
\* left and right both held
SteeredBothWays ==
    /\ AfterStep
    /\ held.left /\ held.right
    /\ deltaTime > 0
    /\ prev.angularVelocity # 0
    /\ angularVelocity # 0

\* section `first` has run before the i-th section of the current frame
RanBefore(first, i) == \E j \in 1..(i - 1) : done[j] \in first

\* C10 (as claimed): in every frame of both variants camera placement runs
\* after the boundary policy of that frame.
CameraAfterBoundary ==
    \A i \in DOMAIN done :
        done[i] = "camera" => RanBefore({"walls", "check"}, i)

\* the sections of updatePhysics in the order of the claim as amended
FrameSections ==
    IF variant = "circuit"
    THEN <<"steering", "angularDrag", "velocity", "position", "walls", "camera">>
    ELSE <<"steering", "angularDrag", "velocity", "position", "camera", "check">>

\* C10 (amended): on the circuit the order within updatePhysics is
\* translation, boundary policy, camera placement; in the open field it is
\* translation, camera placement, boundary check.  Every frame runs all of
\* them, and in both variants the camera at the end of the frame is the one
\* placed from the position and heading the frame ends with.
CameraOrder ==
    /\ Len(done) <= Len(FrameSections)
    /\ done = SubSeq(FrameSections, 1, Len(done))
    /\ AfterStep => /\ done = FrameSections
                    /\ cameraPosition = CameraPlace(position, rotationY)

\* C10 witness: a frame of the open field whose boundary check fired after
\* the camera was placed
EdgeFiredAfterCamera ==
    /\ AfterStep
    /\ variant = "open"
    /\ fired = {"edge"}
    /\ done[Len(done)] = "check"
    /\ velocity # Zero3

\* the horizontal radius of p is maxRadius - 0.1, within the rounding of the
\* normalisation (3 cm)
AtOuterSnap(p) ==
    LET snap == (TRACK_RADIUS + TRACK_WIDTH) * Cm - Cm \div 10
    IN  /\ DistanceSq(p) <= snap * snap
        /\ DistanceSq(p) >= (snap - 3) * (snap - 3)

\* one run of the Track Boundary Check: at most one wall rule fires; the
\* velocity is left alone or multiplied by 0.01 once, the position is left
\* alone or set once, to the radius of the rule that fired
OneWallRuleStep ==
    (pc = "walls")
        => /\ Cardinality(fired') <= 1
           /\ velocity' = (IF fired' = {} THEN velocity ELSE Crash(velocity))
           /\ (fired' = {}) => (position' = position)
           /\ (fired' = {"inner"})
                  => (InnerWallHit(DistanceSq(position))
                      /\ (AtInnerSnap(position') \/ DistanceSq(position) = 0))
           /\ (fired' = {"outer"})
                  => (DistanceSq(position) > maxRadius * maxRadius
                      /\ AtOuterSnap(position'))

\* C11: on the circuit, in any single updatePhysics step at most one of the
\* inner-wall and outer-wall rules fires, so the velocity is multiplied by
\* 0.01 at most once and the position is snapped at most once; a body
\* snapped outward by the inner-wall rule is not then handled by the
\* outer-wall rule in the same frame.
OneWallRulePerFrame == [][OneWallRuleStep]_vars

\* C11 witness: a frame whose inner-wall rule fired alone: the body ends on
\* the inner snap radius with the velocity of the velocity update decayed
\* once, still non-zero
InnerFiredAlone ==
    /\ AfterStep
    /\ variant = "circuit"
    /\ fired = {"inner"}
    /\ AtInnerSnap(position)
    /\ velocity # Zero3
    /\ velocity = Crash(NextVelocity(prev.velocity, rotationY, held, deltaTime))

\* the body state of the claim: position, heading, velocity, angular velocity
motion == <<position, rotationY, velocity, angularVelocity>>

\* one step of the program: inside updatePhysics the latch is the one sampled
\* when the frame began and the step leaves it alone; a step that changes the
\* latch starts and ends between frames and leaves the body alone; a step
\* that changes the body is a step of updatePhysics
KeyEventsBetweenStepsStep ==
    /\ (pc # "idle") => (keys = held /\ keys' = keys)
    /\ (keys' # keys) => (pc = "idle" /\ pc' = "idle" /\ motion' = motion
                          /\ frames' = frames)
    /\ (motion' # motion) => (pc # "idle" /\ keys' = keys /\ frames' = frames)

\* C12: under any interleaving of key events and frames, a key event runs
\* only between updatePhysics steps, never inside one: every read of the four
\* controls within one step sees the same latch state, and key events leave
\* position, heading, velocity and angular velocity unchanged; the body
\* changes only in updatePhysics, once per frame.
KeyEventsBetweenSteps == [][KeyEventsBetweenStepsStep]_vars

\* C12 witness: forward was held during the first frame and released after
\* it; the body is still the one that frame computed from the held controls
ReleasedAfterFrame ==
    /\ pc = "idle"
    /\ frames = 1
    /\ held.forward
    /\ ~keys.forward
    /\ keys.left
    /\ fired = {}
    /\ velocity # Zero3
    /\ velocity = NextVelocity(prev.velocity, rotationY, held, deltaTime)
    /\ position = Translate(prev.position, velocity, deltaTime)

====
